---- MODULE Spec2Model ----
(***************************************************************************)
(* WebSocket tunnel of EasyTier (easytier/src/tunnel/websocket.rs):        *)
(* the listener (listen / accept / try_accept), the connector (connect),   *)
(* the scheme classification and the packet <-> message codec.             *)
(*                                                                         *)
(* Spec      : control plane - one WSTunnelListener, the raw connections   *)
(*             that reach it, the connectors that call connect().          *)
(* FairSpec  : Spec with the runtime's scheduling of the accept task.      *)
(* TunnelSpec: data plane - one established tunnel pair and the messages   *)
(*             its two receive streams are handed by the transport.        *)
(* CallSpec  : one WSTunnelConnector object and one Listening listener,    *)
(*             with the stages each connect() / try_accept() call runs.    *)
(***************************************************************************)
EXTENDS Integers, Sequences, FiniteSets, TLC

\* ------------------------------------------------------------------ bounds
MaxConns == 2      \* raw connections / connect() calls made in a run
MaxListens == 2    \* listen() calls made in a run

\* ------------------------------------------------------------- vocabulary
Schemes == {"ws", "wss", "wsx", "tcp"}   \* URL schemes a connector is given
ListenerSchemes == {"ws", "wss", "tcp"}  \* URL schemes a listener is given
ConfiguredPorts == {0, 1}      \* port 0 asks the OS for an ephemeral port
EphemeralPorts == {2}          \* what the OS hands out for port 0

NoErr == <<>>

\* What a peer writes on a fresh TCP connection: a WebSocket upgrade request
\* in the clear, a TLS handshake carrying an upgrade request, bytes that are
\* neither, or nothing at all.
Flights == {"http_upgrade", "tls_hello", "junk", "none"}

\* ----------------------------------------------------------------- is_wss
\* fn is_wss(addr) -> Result<bool, TunnelError>
is_wss_by_prefix(scheme) ==
    CASE scheme = "wss" -> [ok |-> TRUE, val |-> TRUE, err |-> NoErr]
      [] scheme \in {"ws", "wsx"} -> [ok |-> TRUE, val |-> FALSE, err |-> NoErr]
      [] OTHER -> [ok |-> FALSE, val |-> FALSE, err |-> <<"InvalidProtocol", scheme>>]

is_wss(scheme) ==
    CASE scheme = "ws" -> [ok |-> TRUE, val |-> FALSE, err |-> NoErr]
      [] scheme = "wss" -> [ok |-> TRUE, val |-> TRUE, err |-> NoErr]
      [] OTHER -> [ok |-> FALSE, val |-> FALSE, err |-> <<"InvalidProtocol", scheme>>]

\* --------------------------------------------------------------- variables
VARIABLES
    addr,        \* WSTunnelListener.addr: [scheme, port]
    listener,    \* WSTunnelListener.listener: [id, port], id = 0 for None
    nListen,     \* listen() calls made so far
    listenErr,   \* the error the last listen() returned (NoErr: Ok)
    pc,          \* where the listener's owner is: "idle", "tcp_accept",
                 \* "handshake", "panicked"
    cur,         \* the raw connection the accept loop holds (0: none)
    acceptRet,   \* how the last accept() ended: "-", "tunnel", "err", "panic"
    acceptCause, \* why it ended without a tunnel: "-", "tcp_accept",
                 \* "set_nodelay", "unbound"
    lastTry,     \* the error of the last failed try_accept of this call
    tunnels,     \* the tunnels accept() returned, in order
    conns,       \* every TCP connection made to the listener, in order of creation
    backlog,     \* connections queued on the listening socket, oldest first
    lastConnect, \* the error of the last connect() that failed before any TCP connection
    cryptoInit   \* init_crypto_provider() has run in this process

VARIABLES
    sent,        \* per side: the packets handed to the tunnel's sink, in order
    wire,        \* per side: what the transport will hand the side's read half
    yielded,     \* per side: the items the receive stream has yielded, in order
    closeLen,    \* per side: Len(yielded) when a close frame was read (-1: none)
    sinkClosed,  \* per side: the side closed its sink (a close frame was sent)
    nRaw         \* per side: items the transport delivered that the peer's
                 \* sink did not produce

cvars == <<addr, listener, nListen, listenErr, pc, cur, acceptRet, acceptCause,
           lastTry, tunnels, conns, backlog, lastConnect, cryptoInit>>

dvars == <<sent, wire, yielded, closeLen, sinkClosed, nRaw>>

VARIABLES
    connector,   \* WSTunnelConnector: [scheme, host, ip_version]
    call         \* the last connect() / try_accept() call: the stages it ran,
                 \* in order, and how it ended

svars == <<connector, call>>

vars == <<cvars, dvars, svars>>

NoListener == [id |-> 0, port |-> 0]

\* The two ends of a tunnel pair: the one accept() returned and the one
\* connect() returned.
Sides == {"acceptor", "connector"}
Peer(side) == IF side = "acceptor" THEN "connector" ELSE "acceptor"

DataInit ==
    /\ sent = [x \in Sides |-> <<>>]
    /\ wire = [x \in Sides |-> <<>>]
    /\ yielded = [x \in Sides |-> <<>>]
    /\ closeLen = [x \in Sides |-> -1]
    /\ sinkClosed = [x \in Sides |-> FALSE]
    /\ nRaw = [x \in Sides |-> 0]

\* No connector object and no call yet.
NoInfo == [tunnel_type |-> "-", local_addr |-> "-", remote_addr |-> "-"]
NoAddr == "-"
NoConnector == [scheme |-> "-", host |-> "-", ip_version |-> "Both"]
NoCall == [kind |-> "-", steps |-> <<>>, ret |-> "-", err |-> NoErr, pref |-> "-",
           resolved |-> NoAddr, target |-> NoAddr, info |-> NoInfo]

CallIdle == connector = NoConnector /\ call = NoCall

\* ---------------------------------------------------- the wire handshakes
\* What a connector built by ClientBuilder writes first (lines 193-200): with
\* the Rustls connector a TLS handshake carrying the upgrade request, without
\* it the upgrade request in the clear.
ClientFlight(wss) == IF wss THEN "tls_hello" ELSE "http_upgrade"

\* acceptor.accept(stream) (line 94): the TLS server handshake on what the
\* peer wrote; on success the plaintext the TLS session carries.
TlsAccept(flight) ==
    CASE flight = "tls_hello" -> [ok |-> TRUE, plain |-> "http_upgrade"]
      [] OTHER -> [ok |-> FALSE, plain |-> "junk"]

\* server_bulder.accept(stream) (lines 95, 103): the WebSocket upgrade.
WsAccept(plain) == plain = "http_upgrade"

\* try_accept from its first await on (lines 94-111): Ok or the error.
HandshakeAny(wss, flight) == [ok |-> TRUE, err |-> NoErr]

Handshake(wss, flight) ==
    IF wss
    THEN LET t == TlsAccept(flight) IN
         IF ~t.ok THEN [ok |-> FALSE, err |-> <<"TlsError">>]
         ELSE IF ~WsAccept(t.plain) THEN [ok |-> FALSE, err |-> <<"WebSocketError">>]
         ELSE [ok |-> TRUE, err |-> NoErr]
    ELSE IF ~WsAccept(flight) THEN [ok |-> FALSE, err |-> <<"WebSocketError">>]
         ELSE [ok |-> TRUE, err |-> NoErr]

\* ------------------------------------------------------------------- Init
\* WSTunnelListener::new(addr): any URL parses into a listener, no socket yet.
Init ==
    /\ addr \in [scheme : ListenerSchemes, port : ConfiguredPorts]
    /\ listener = NoListener
    /\ nListen = 0
    /\ listenErr = NoErr
    /\ pc = "idle"
    /\ cur = 0
    /\ acceptRet = "-"
    /\ acceptCause = "-"
    /\ lastTry = NoErr
    /\ tunnels = <<>>
    /\ conns = <<>>
    /\ backlog = <<>>
    /\ lastConnect = NoErr
    /\ cryptoInit = FALSE
    /\ DataInit
    /\ CallIdle

\* ----------------------------------------------------------------- listen
lvars == <<addr, listener, nListen, listenErr>>
avars == <<pc, cur, acceptRet, acceptCause, lastTry, tunnels>>

\* The connections still queued on a listening socket are reset when the
\* socket is dropped.
ResetQueued(cs, q) ==
    [c \in DOMAIN cs |->
        IF \E i \in DOMAIN q : q[i] = c THEN [cs[c] EXCEPT !.st = "reset"] ELSE cs[c]]

\* Where listen() can fail: "bind" stands for every `?` up to the bound
\* socket's local_addr() (lines 118-128: from_url, Socket::new, setup_sokcet2,
\* local_addr), "listen" for socket.listen(1024) (line 131). "addr_in_use" is
\* the bind of setup_sokcet2 refused because the port is held by a socket
\* that is listening on it.
ListenStages == {"bind", "addr_in_use", "listen", "none"}

\* The new socket is bound (line 124) while self.listener still owns the
\* previous one, which is dropped only by the assignment at line 131. With
\* reuse-of-address set, whether a port can be bound while a socket listens
\* on it is up to the OS: both outcomes are kept.
PortHeld(l, p) == l.id # 0 /\ l.port = p

ListenErrOf(fail) ==
    CASE fail = "none" -> NoErr
      [] fail = "addr_in_use" -> <<"AddrInUse">>
      [] OTHER -> <<"IOError">>

\* setup_sokcet2 (common.rs) binds the socket to the resolved address: the
\* ports the bound socket can have.
BindPorts(a) == IF a.port = 0 THEN EphemeralPorts ELSE {a.port}

\* self.addr.set_port(Some(socket.local_addr()?.port())) (lines 127-129).
SetPortSkipped(a, p) == a

SetPort(a, p) == [a EXCEPT !.port = p]

\* listen(): `fail` is the first stage that fails ("none": all succeed), `p`
\* the port the bind gives. A failure before the port is written back leaves
\* the listener as it was; a failure of socket.listen(1024) comes after it.
Listen(fail, p) ==
    /\ pc = "idle"
    /\ nListen < MaxListens
    /\ p \in BindPorts(addr)
    /\ fail = "addr_in_use" => PortHeld(listener, p)
    /\ nListen' = nListen + 1
    /\ listenErr' = ListenErrOf(fail)
    /\ addr' = IF fail \in {"listen", "none"} THEN SetPort(addr, p) ELSE addr
    /\ IF fail = "none"
       THEN /\ listener' = [id |-> nListen + 1, port |-> p]
            /\ conns' = ResetQueued(conns, backlog)
            /\ backlog' = <<>>
       ELSE UNCHANGED <<listener, conns, backlog>>
    /\ UNCHANGED <<avars, lastConnect, cryptoInit, dvars, svars>>

\* local_url(): a copy of addr.
local_url == addr

\* ----------------------------------------------------------------- accept
\* self.listener.as_ref().unwrap() (line 137): TRUE when it yields a socket.
UnwrapAlways(l) == TRUE

UnwrapListener(l) == l.id # 0

\* accept() is called: the loop is entered, and its first statement panics on
\* a listener that was never bound.
AcceptCall ==
    /\ pc = "idle"
    /\ lastTry' = NoErr
    /\ IF UnwrapListener(listener)
       THEN /\ pc' = "tcp_accept"
            /\ acceptRet' = "-"
            /\ acceptCause' = "-"
       ELSE /\ pc' = "panicked"
            /\ acceptRet' = "panic"
            /\ acceptCause' = "unbound"
    /\ UNCHANGED <<lvars, cur, tunnels, conns, backlog, lastConnect, cryptoInit, dvars, svars>>

\* What becomes of a connection's stream: moved into try_accept ("accepted"),
\* kept by the tunnel returned ("tunnel"), or dropped ("closed").
SetStKeep(cs, c, st) == cs

SetSt(cs, c, st) == [cs EXCEPT ![c].st = st]

\* The match on try_accept's result (lines 141-147), error arm: where the
\* loop goes and what accept() has returned.
OnTryErrPropagate == [pc |-> "idle", ret |-> "err", cause |-> "try_accept"]

OnTryErr == [pc |-> "tcp_accept", ret |-> "-", cause |-> "-"]

\* listener.accept().await? fails (line 139): accept() returns the error.
TcpAcceptFail ==
    /\ pc = "tcp_accept"
    /\ pc' = "idle"
    /\ acceptRet' = "err"
    /\ acceptCause' = "tcp_accept"
    /\ UNCHANGED <<lvars, cur, lastTry, tunnels, conns, backlog, lastConnect, cryptoInit, dvars, svars>>

\* listener.accept() yields the oldest queued connection (line 139); then,
\* without suspending: set_nodelay(true).unwrap() (line 140) and try_accept up
\* to its first await (lines 73-92).
TcpAccept(nodelayOk, peerAddrOk) ==
    /\ pc = "tcp_accept"
    /\ backlog # <<>>
    /\ LET c == Head(backlog)
           cls == is_wss(addr.scheme)
       IN  /\ backlog' = Tail(backlog)
           /\ IF ~nodelayOk
              THEN /\ pc' = "panicked"
                   /\ acceptRet' = "panic"
                   /\ acceptCause' = "set_nodelay"
                   /\ conns' = SetSt(conns, c, "closed")
                   /\ UNCHANGED <<cur, lastTry, cryptoInit>>
              ELSE IF ~peerAddrOk \/ ~cls.ok
              THEN /\ pc' = OnTryErr.pc
                   /\ acceptRet' = OnTryErr.ret
                   /\ acceptCause' = OnTryErr.cause
                   /\ lastTry' = IF ~peerAddrOk THEN <<"IOError">> ELSE cls.err
                   /\ conns' = SetSt(conns, c, "closed")
                   /\ UNCHANGED <<cur, cryptoInit>>
              ELSE /\ pc' = "handshake"
                   /\ cur' = c
                   /\ conns' = SetSt(conns, c, "accepted")
                   /\ cryptoInit' = (cryptoInit \/ cls.val)
                   /\ UNCHANGED <<acceptRet, acceptCause, lastTry>>
    /\ UNCHANGED <<lvars, tunnels, lastConnect, dvars, svars>>

\* TunnelInfo built by try_accept (lines 73-81).
AcceptInfoSwapped(c) ==
    [conn |-> c,
     tunnel_type |-> addr.scheme,
     local_addr |-> [scheme |-> addr.scheme, peer |-> c],
     remote_addr |-> local_url]

AcceptInfo(c) ==
    [conn |-> c,
     tunnel_type |-> addr.scheme,
     local_addr |-> local_url,
     remote_addr |-> [scheme |-> addr.scheme, peer |-> c]]

\* The awaited part of try_accept (lines 94-111) resolves, which needs the
\* peer to have written something, and accept() matches on the result.
HandshakeStep ==
    /\ pc = "handshake"
    /\ conns[cur].flight # "none"
    /\ LET r == Handshake(is_wss(addr.scheme).val, conns[cur].flight)
       IN  IF r.ok
           THEN /\ tunnels' = Append(tunnels, AcceptInfo(cur))
                /\ conns' = SetSt(conns, cur, "tunnel")
                /\ pc' = "idle"
                /\ acceptRet' = "tunnel"
                /\ UNCHANGED <<acceptCause, lastTry>>
           ELSE /\ conns' = SetSt(conns, cur, "closed")
                /\ pc' = OnTryErr.pc
                /\ acceptRet' = OnTryErr.ret
                /\ acceptCause' = OnTryErr.cause
                /\ lastTry' = r.err
                /\ UNCHANGED tunnels
    /\ cur' = 0
    /\ UNCHANGED <<lvars, backlog, lastConnect, cryptoInit, dvars, svars>>

\* ---------------------------------------------------------------- connect
\* A TCP connection to the listening socket, as the listener's side and the
\* peer see it. st: "backlog", "accepted", "tunnel", "closed", "reset".
Conn(origin, scheme, flight) ==
    [origin |-> origin, scheme |-> scheme, flight |-> flight, st |-> "backlog"]

\* WSTunnelConnector::new(scheme://host:port).connect() up to the await of
\* client_builder.connect() (lines 173-200). The connector is given the port
\* the listener advertises; the TCP connection is refused while no socket
\* listens. A call that fails before a TCP connection exists leaves only its
\* error.
Connect(scheme, resolveOk) ==
    LET cls == is_wss(scheme) IN
    /\ IF ~cls.ok
       THEN /\ lastConnect' = cls.err
            /\ UNCHANGED <<conns, backlog, cryptoInit>>
       ELSE IF ~resolveOk
       THEN /\ lastConnect' = <<"ResolveError">>
            /\ UNCHANGED <<conns, backlog, cryptoInit>>
       ELSE /\ cryptoInit' = (cryptoInit \/ cls.val)
            /\ IF listener.id # 0
               THEN /\ Len(conns) < MaxConns
                    /\ conns' = Append(conns, Conn("connector", scheme, ClientFlight(cls.val)))
                    /\ backlog' = Append(backlog, Len(conns) + 1)
                    /\ UNCHANGED lastConnect
               ELSE /\ lastConnect' = <<"IOError">>
                    /\ UNCHANGED <<conns, backlog>>
    /\ UNCHANGED <<lvars, avars, dvars, svars>>

\* A peer that is no WSTunnelConnector opens a TCP connection to the
\* listening socket and writes `flight`.
RawFlights == {"junk", "none"}

RawConnect(flight) ==
    /\ Len(conns) < MaxConns
    /\ listener.id # 0
    /\ conns' = Append(conns, Conn("raw", "-", flight))
    /\ backlog' = Append(backlog, Len(conns) + 1)
    /\ UNCHANGED <<lvars, avars, lastConnect, cryptoInit, dvars, svars>>

\* client_builder.connect().await? (line 200), as the connector that made
\* connection c sees it: pending while the listener has not answered, Ok once
\* the listener answered the upgrade, the error once the listener dropped the
\* connection.
ConnectResultOf(conn) ==
    CASE conn.st = "tunnel" -> "ok"
      [] conn.st \in {"closed", "reset"} -> "err"
      [] OTHER -> "pending"

ConnectResult(c) == ConnectResultOf(conns[c])

\* ------------------------------------------------------------------- Spec
ListenerStep ==
    \/ AcceptCall
    \/ TcpAcceptFail
    \/ \E nodelayOk, peerAddrOk \in BOOLEAN : TcpAccept(nodelayOk, peerAddrOk)
    \/ HandshakeStep

Next ==
    \/ \E fail \in ListenStages, p \in EphemeralPorts \cup (ConfiguredPorts \ {0}) :
          Listen(fail, p)
    \/ ListenerStep
    \/ \E scheme \in Schemes, resolveOk \in BOOLEAN : Connect(scheme, resolveOk)
    \/ \E flight \in RawFlights : RawConnect(flight)

Spec == Init /\ [][Next]_vars

\* The runtime polls the accept task whenever its I/O is ready: a queued
\* connection is taken, a handshake whose peer has written is driven on.
FairSpec ==
    /\ Spec
    /\ WF_vars(\E nodelayOk, peerAddrOk \in BOOLEAN : TcpAccept(nodelayOk, peerAddrOk))
    /\ WF_vars(HandshakeStep)

\* ------------------------------------------------- claims: control plane
\* The peer of connection c followed the protocol the listener's scheme asks
\* for: a TLS handshake carrying the upgrade for wss, the upgrade in the
\* clear for ws.
WellFormed(c) ==
    \/ addr.scheme = "wss" /\ conns[c].flight = "tls_hello"
    \/ addr.scheme = "ws" /\ conns[c].flight = "http_upgrade"

Returned(c) == \E i \in DOMAIN tunnels : tunnels[i].conn = c

\* C1: a connection whose handshake fails does not end accept(): the loop is
\* back at the raw TCP accept, accept() has returned nothing and no tunnel was
\* made; accept() returns a Tunnel only for the connection it holds and only
\* when that connection's handshake fully succeeded, and for a well-formed
\* connection the handshake step always returns its Tunnel.
C1_Step ==
    pc = "handshake" /\ pc' # "handshake" =>
        /\ ~WellFormed(cur) =>
              /\ pc' = "tcp_accept"
              /\ acceptRet' = "-"
              /\ tunnels' = tunnels
              /\ conns'[cur].st = "closed"
        /\ WellFormed(cur) =>
              /\ acceptRet' = "tunnel"
              /\ tunnels' = Append(tunnels, tunnels'[Len(tunnels')])
              /\ tunnels'[Len(tunnels')].conn = cur
        /\ \A i \in DOMAIN tunnels' : WellFormed(tunnels'[i].conn)

C1_AcceptSurvivesHandshakeFailure == [][C1_Step]_vars

\* C1 witness: one accept() call saw connection 1 fail its handshake and then
\* returned the tunnel of connection 2.
C1_Witness ==
    /\ acceptRet = "tunnel"
    /\ lastTry \in {<<"TlsError">>, <<"WebSocketError">>}
    /\ Len(conns) = 2
    /\ conns[1].st = "closed"
    /\ Returned(2)

\* A connector's connection whose scheme is the other one of {ws, wss}.
Mismatch(c) ==
    /\ conns[c].origin = "connector"
    /\ {conns[c].scheme, addr.scheme} = {"ws", "wss"}

Match(c) ==
    /\ conns[c].origin = "connector"
    /\ conns[c].scheme = addr.scheme

\* C2: a connector whose scheme is ws against a wss listener, or wss against
\* a ws listener, never gets a tunnel and none is made for it on the
\* listener's side; once the accept loop holds its connection the handshake
\* resolves (it does not wait on the peer) and resolves to a failure of the
\* connect; a connector with the listener's scheme, once held, gets a tunnel.
C2_State ==
    \A c \in DOMAIN conns :
        Mismatch(c) =>
            /\ conns[c].st # "tunnel"
            /\ ~Returned(c)
            /\ ConnectResult(c) # "ok"
            /\ (pc = "handshake" /\ cur = c => ENABLED HandshakeStep)

C2_Step ==
    pc = "handshake" /\ pc' # "handshake" =>
        /\ Mismatch(cur) => ConnectResultOf(conns'[cur]) = "err"
        /\ Match(cur) => ConnectResultOf(conns'[cur]) = "ok" /\ tunnels'[Len(tunnels')].conn = cur

C2_SchemeMismatchFails == []C2_State /\ [][C2_Step]_vars

\* C2 witness: against one listening socket, the first connector had the
\* other scheme and failed, the second had the listener's scheme and
\* succeeded.
C2_Witness ==
    /\ nListen = 1
    /\ Len(conns) = 2
    /\ Mismatch(1) /\ ConnectResult(1) = "err"
    /\ Match(2) /\ ConnectResult(2) = "ok" /\ Returned(2)

\* C3: the classification is ws -> insecure, wss -> secure, anything else ->
\* InvalidProtocol carrying that very scheme: a connector's connection exists
\* only for ws (upgrade in the clear) and wss (TLS first), a failed connect()
\* or try_accept that reports InvalidProtocol names a scheme outside
\* {ws, wss}, the listener's own in try_accept, and a listener of another
\* scheme never gets to a handshake.
IsInvalidProtocol(e) == Len(e) = 2 /\ e[1] = "InvalidProtocol"

C3_Classification ==
    /\ \A c \in DOMAIN conns :
          conns[c].origin = "connector" =>
              \/ conns[c].scheme = "ws" /\ conns[c].flight = "http_upgrade"
              \/ conns[c].scheme = "wss" /\ conns[c].flight = "tls_hello"
    /\ IsInvalidProtocol(lastConnect) => lastConnect[2] \in Schemes \ {"ws", "wss"}
    /\ IsInvalidProtocol(lastTry) => lastTry[2] = addr.scheme /\ addr.scheme \notin {"ws", "wss"}
    /\ addr.scheme \notin {"ws", "wss"} =>
          /\ pc # "handshake"
          /\ tunnels = <<>>
          /\ lastTry \in {NoErr, <<"IOError">>, <<"InvalidProtocol", addr.scheme>>}
    /\ pc = "handshake" /\ addr.scheme = "wss" => cryptoInit

\* C3 witness: both uses of the classification have rejected a scheme, each
\* naming its own.
C3_Witness ==
    /\ lastConnect = <<"InvalidProtocol", "wsx">>
    /\ lastTry = <<"InvalidProtocol", "tcp">>
    /\ \E c \in DOMAIN conns : conns[c].scheme = "wss"

\* C5: accept() on a Listening listener ends without a Tunnel only because
\* the raw TCP accept failed.
C5_OnlyTcpAcceptEndsAccept ==
    acceptRet \in {"err", "panic"} /\ acceptCause # "unbound" => acceptCause = "tcp_accept"

\* C6: while the accept loop holds a peer that stays silent, a well-formed
\* connection that is queued is still eventually returned as a Tunnel.
C6_SilentPeerDoesNotBlock ==
    \A c \in 1..MaxConns :
        (/\ pc = "handshake"
         /\ conns[cur].flight = "none"
         /\ c \in DOMAIN conns
         /\ conns[c].st = "backlog"
         /\ WellFormed(c))
        ~> (c \in DOMAIN conns /\ Returned(c))

\* C7: a Listening listener's local_url() has the port its socket is bound
\* to, which is never 0, and every tunnel accept() returned has that port in
\* its local endpoint.
C7_LocalUrlHasBoundPort ==
    listener.id # 0 =>
        /\ local_url.port = listener.port
        /\ local_url.port # 0
        /\ \A i \in DOMAIN tunnels : tunnels[i].local_addr.port = listener.port

\* C7 witness: a listener that asked for port 0 returned a tunnel.
C7_Witness ==
    /\ listener.port \in EphemeralPorts
    /\ tunnels # <<>>
    /\ tunnels[1].local_addr.port = listener.port

\* C8: accept() on a listener with no socket ends at once in a panic: the
\* loop never waits for a connection without a socket, and the call that
\* found none took no connection and made no tunnel.
C8_AcceptUnboundFailsFast ==
    /\ pc \in {"tcp_accept", "handshake"} => listener.id # 0
    /\ acceptCause = "unbound" =>
          /\ acceptRet = "panic"
          /\ pc = "panicked"
          /\ listener.id = 0
          /\ tunnels = <<>>
          /\ conns = <<>>

\* C8 witness: listen() was called and failed, then accept() was called.
C8_Witness ==
    /\ nListen = 1
    /\ listener.id = 0
    /\ acceptRet = "panic"
    /\ acceptCause = "unbound"

\* ------------------------------------------------------------------ codec
\* Payload bytes: the empty payload, one byte, two bytes.
Payloads == {<<>>, <<7>>, <<7, 9>>}
PacketTypes == {"NIC", "DummyTunnel"}

\* ZCPacket (packet_def.rs): a packet type and the bytes the tunnel carries.
new_from_buf(buf, ptype) == [packet_type |-> ptype, payload |-> buf]
tunnel_payload_bytes(pkt) == pkt.payload

\* tokio_websockets::Message and Result<Message, tokio_websockets::Error>.
Msg(kind, payload) == [kind |-> kind, payload |-> payload]
NoMsg == Msg("none", <<>>)
OkMsg(m) == [ok |-> TRUE, msg |-> m, err |-> NoErr]
ErrMsg(e) == [ok |-> FALSE, msg |-> NoMsg, err |-> e]

\* Message::binary(msg.tunnel_payload_bytes().freeze()), always Ok (lines 28-30).
sink_as_text(pkt) == OkMsg(Msg("text", tunnel_payload_bytes(pkt)))

sink_from_zc_packet(pkt) == OkMsg(Msg("binary", tunnel_payload_bytes(pkt)))

\* Option<Result<ZCPacket, TunnelError>>.
NoPkt == new_from_buf(<<>>, "none")
None == [some |-> FALSE, ok |-> FALSE, pkt |-> NoPkt, err |-> NoErr]
SomeOk(pkt) == [some |-> TRUE, ok |-> TRUE, pkt |-> pkt, err |-> NoErr]
SomeErr(e) == [some |-> TRUE, ok |-> FALSE, pkt |-> NoPkt, err |-> e]

\* map_from_ws_message (lines 32-56).
map_drop_last_byte(item) ==
    IF ~item.ok THEN SomeErr(<<"WebSocketError", item.err>>)
    ELSE IF item.msg.kind = "close" THEN None
    ELSE IF item.msg.kind # "binary" THEN SomeErr(<<"InvalidPacket", item.msg>>)
    ELSE SomeOk(new_from_buf(
             IF item.msg.payload = <<>> THEN <<>>
             ELSE SubSeq(item.msg.payload, 1, Len(item.msg.payload) - 1),
             "DummyTunnel"))

map_text_as_packet(item) ==
    IF ~item.ok THEN SomeErr(<<"WebSocketError", item.err>>)
    ELSE IF item.msg.kind = "close" THEN None
    ELSE IF item.msg.kind \notin {"binary", "text"} THEN SomeErr(<<"InvalidPacket", item.msg>>)
    ELSE SomeOk(new_from_buf(item.msg.payload, "DummyTunnel"))

map_from_ws_message(item) ==
    IF ~item.ok THEN SomeErr(<<"WebSocketError", item.err>>)
    ELSE IF item.msg.kind = "close" THEN None
    ELSE IF item.msg.kind # "binary" THEN SomeErr(<<"InvalidPacket", item.msg>>)
    ELSE SomeOk(new_from_buf(item.msg.payload, "DummyTunnel"))

\* ------------------------------------------------------------- data plane
MaxMsgs == 2       \* items put on the pair's two wires in a run

Count(b) == IF b THEN 1 ELSE 0

\* The items put on the wires so far: packets sent, close frames, and what
\* the transport delivered on its own.
Wired ==
    Len(sent["acceptor"]) + Len(sent["connector"])
    + Count(sinkClosed["acceptor"]) + Count(sinkClosed["connector"])
    + nRaw["acceptor"] + nRaw["connector"]

\* What the transport can hand a read half besides the peer's packets: a read
\* error, or a message the peer's sink never produces.
RawItems ==
    {ErrMsg(<<"io">>)} \cup
    {OkMsg(Msg(k, <<7>>)) : k \in {"text", "ping", "pong", "binary"}} \cup
    {OkMsg(Msg("close", <<>>))}

\* A tunnel pair exists: accept() returned a tunnel and the connect() that
\* made its connection returned Ok.
PairUp == tunnels # <<>> /\ ConnectResult(tunnels[1].conn) = "ok"

\* tunnel.send(pkt) on `side`: write.with(sink_from_zc_packet) (lines 99, 106,
\* 204) turns the packet into a message, which the transport carries to the
\* peer's read half.
Send(side, pkt) ==
    /\ PairUp
    /\ ~sinkClosed[side]
    /\ Wired < MaxMsgs
    /\ LET m == sink_from_zc_packet(pkt)
       IN  /\ sent' = [sent EXCEPT ![side] = Append(@, pkt)]
           /\ wire' = IF m.ok THEN [wire EXCEPT ![Peer(side)] = Append(@, m)] ELSE wire
    /\ UNCHANGED <<cvars, svars, yielded, closeLen, sinkClosed, nRaw>>

\* `side` closes its sink: the peer's read half gets a close frame.
CloseSink(side) ==
    /\ PairUp
    /\ ~sinkClosed[side]
    /\ Wired < MaxMsgs
    /\ sinkClosed' = [sinkClosed EXCEPT ![side] = TRUE]
    /\ wire' = [wire EXCEPT ![Peer(side)] = Append(@, OkMsg(Msg("close", <<>>)))]
    /\ UNCHANGED <<cvars, svars, sent, yielded, closeLen, nRaw>>

\* The transport hands `side` an item the peer's sink did not produce.
Deliver(side, item) ==
    /\ PairUp
    /\ Wired < MaxMsgs
    /\ nRaw' = [nRaw EXCEPT ![side] = @ + 1]
    /\ wire' = [wire EXCEPT ![side] = Append(@, item)]
    /\ UNCHANGED <<cvars, svars, sent, yielded, closeLen, sinkClosed>>

\* read.filter_map(map_from_ws_message) (lines 98, 105, 203) is polled and the
\* read half has an item: an item mapped to None is filtered out and the
\* stream goes on with the next one, any other is yielded.
Recv(side) ==
    /\ PairUp
    /\ wire[side] # <<>>
    /\ LET item == Head(wire[side])
           r == map_from_ws_message(item)
       IN  /\ wire' = [wire EXCEPT ![side] = Tail(@)]
           /\ yielded' = IF r.some THEN [yielded EXCEPT ![side] = Append(@, r)] ELSE yielded
           /\ closeLen' = IF item.ok /\ item.msg.kind = "close" /\ closeLen[side] = -1
                          THEN [closeLen EXCEPT ![side] = Len(yielded[side])]
                          ELSE closeLen
    /\ UNCHANGED <<cvars, svars, sent, sinkClosed, nRaw>>

\* A pair right after accept() and connect() both returned, for either
\* scheme: listen() on a configured port, one connector, one accept().
TunnelInit ==
    \E s \in {"ws", "wss"} :
        /\ addr = [scheme |-> s, port |-> 1]
        /\ listener = [id |-> 1, port |-> 1]
        /\ nListen = 1
        /\ listenErr = NoErr
        /\ pc = "idle"
        /\ cur = 0
        /\ acceptRet = "tunnel"
        /\ acceptCause = "-"
        /\ lastTry = NoErr
        /\ tunnels = <<[conn |-> 1, tunnel_type |-> s,
                        local_addr |-> [scheme |-> s, port |-> 1],
                        remote_addr |-> [scheme |-> s, peer |-> 1]]>>
        /\ conns = <<[origin |-> "connector", scheme |-> s,
                      flight |-> ClientFlight(s = "wss"), st |-> "tunnel"]>>
        /\ backlog = <<>>
        /\ lastConnect = NoErr
        /\ cryptoInit = (s = "wss")
        /\ DataInit
        /\ CallIdle

TunnelNext ==
    \/ \E side \in Sides, ptype \in PacketTypes, payload \in Payloads :
          Send(side, new_from_buf(payload, ptype))
    \/ \E side \in Sides : CloseSink(side)
    \/ \E side \in Sides, item \in RawItems : Deliver(side, item)
    \/ \E side \in Sides : Recv(side)

TunnelSpec == TunnelInit /\ [][TunnelNext]_vars


\* ------------------------------------------------- calls, stage by stage
\* The address-family preference (IpVersion) and the families of the
\* addresses a host name resolves to.
IpVersions == {"V4", "V6", "Both"}
Hosts == {"h4", "h6", "h46"}
HostAddrs(host) ==
    CASE host = "h4" -> {"v4"}
      [] host = "h6" -> {"v6"}
      [] OTHER -> {"v4", "v6"}

\* SocketAddr::from_url(url, ip_version) (mod.rs): the addresses of the host
\* that the preference allows; it fails when there is none.
FromUrl(host, ipv) ==
    {a \in HostAddrs(host) : ipv = "Both" \/ (ipv = "V4" /\ a = "v4") \/ (ipv = "V6" /\ a = "v6")}

\* How the peer answers client_builder.connect() (line 200).
Answers == {"ok", "tls_err", "ws_err", "io_err"}

\* TunnelInfo built by connect() (lines 175-189).
ConnectInfo(conn, resolved) ==
    [tunnel_type |-> conn.scheme,
     local_addr |-> [scheme |-> conn.scheme,
                     bind |-> IF resolved = "v4" THEN "0.0.0.0:0" ELSE "[::]:0"],
     remote_addr |-> [scheme |-> conn.scheme, host |-> conn.host]]

\* connect() (lines 172-207), stage by stage. `resolved` is what from_url
\* returns (NoAddr: it fails), `target` the address the client handshake's
\* own TCP connection goes to, `answer` how the peer answers; `pref` keeps
\* the preference the call read (line 174).
ConnectRunRetry(conn, resolved, target, answer) ==
    [kind |-> "connect",
     steps |-> <<"is_wss", "from_url", "tunnel_info", "get_insecure_tls_client_config",
                 "client_connect", "client_connect">>,
     ret |-> "err", err |-> <<"WebSocketError">>, pref |-> conn.ip_version,
     resolved |-> resolved, target |-> target, info |-> NoInfo]

ConnectRun(conn, resolved, target, answer) ==
    LET cls == is_wss(conn.scheme)
        fail(steps, err, r, t) ==
            [kind |-> "connect", steps |-> steps, ret |-> "err", err |-> err,
             pref |-> conn.ip_version, resolved |-> r, target |-> t, info |-> NoInfo]
        s1 == <<"is_wss">>
        s2 == Append(s1, "from_url")
        s3 == s2 \o <<"tunnel_info", "get_insecure_tls_client_config">>
        s4 == IF cls.val THEN Append(s3, "init_crypto_provider") ELSE s3
        s5 == Append(s4, "client_connect")
    IN  IF ~cls.ok THEN fail(s1, cls.err, NoAddr, NoAddr)
        ELSE IF resolved = NoAddr THEN fail(s2, <<"ResolveError">>, NoAddr, NoAddr)
        ELSE IF answer = "tls_err" THEN fail(s5, <<"TlsError">>, resolved, target)
        ELSE IF answer = "ws_err" THEN fail(s5, <<"WebSocketError">>, resolved, target)
        ELSE IF answer = "io_err" THEN fail(s5, <<"IOError">>, resolved, target)
        ELSE [kind |-> "connect", steps |-> s5, ret |-> "ok", err |-> NoErr,
              pref |-> conn.ip_version, resolved |-> resolved, target |-> target,
              info |-> ConnectInfo(conn, resolved)]

\* connector.connect(): client_builder is built from self.addr (line 194) and
\* makes its own TCP connection to the URL's host; the address from_url
\* resolved (line 174) only picks the local_addr text of the TunnelInfo.
ConnectCall(resolved, target, answer) ==
    /\ resolved \in FromUrl(connector.host, connector.ip_version) \cup {NoAddr}
    /\ target \in HostAddrs(connector.host)
    /\ answer = "tls_err" => is_wss(connector.scheme).val
    /\ call' = ConnectRun(connector, resolved, target, answer)
    /\ cryptoInit' = (cryptoInit \/ \E i \in DOMAIN call'.steps :
                                        call'.steps[i] = "init_crypto_provider")
    /\ UNCHANGED <<connector, lvars, avars, conns, backlog, lastConnect, dvars>>

\* set_ip_version (lines 213-215).
SetIpVersion(v) ==
    /\ connector' = [connector EXCEPT !.ip_version = v]
    /\ UNCHANGED <<cvars, dvars, call>>

\* try_accept(stream) (lines 72-112), stage by stage, for the stream of
\* `peer` carrying `flight`; `target` keeps the peer the stream belongs to.
TryAcceptRun(peer, peerAddrOk, flight) ==
    LET cls == is_wss(addr.scheme)
        fail(steps, err) ==
            [kind |-> "try_accept", steps |-> steps, ret |-> "err", err |-> err,
             pref |-> "-", resolved |-> NoAddr, target |-> peer, info |-> NoInfo]
        s1 == <<"peer_addr">>
        s2 == <<"peer_addr", "tunnel_info", "is_wss">>
        s3 == s2 \o <<"init_crypto_provider", "get_insecure_tls_cert", "server_config",
                      "tls_accept">>
        ws == IF cls.val THEN Append(s3, "ws_accept") ELSE Append(s2, "ws_accept")
        r  == Handshake(cls.val, flight)
    IN  IF ~peerAddrOk THEN fail(s1, <<"IOError">>)
        ELSE IF ~cls.ok THEN fail(s2, cls.err)
        ELSE IF r.ok
        THEN [kind |-> "try_accept", steps |-> ws, ret |-> "ok", err |-> NoErr,
              pref |-> "-", resolved |-> NoAddr, target |-> peer, info |-> AcceptInfo(peer)]
        ELSE IF r.err = <<"TlsError">> THEN fail(s3, r.err)
        ELSE fail(ws, r.err)

TryAcceptCall(peer, peerAddrOk, flight) ==
    /\ flight # "none"
    /\ call' = TryAcceptRun(peer, peerAddrOk, flight)
    /\ cryptoInit' = (cryptoInit \/ \E i \in DOMAIN call'.steps :
                                        call'.steps[i] = "init_crypto_provider")
    /\ UNCHANGED <<connector, lvars, avars, conns, backlog, lastConnect, dvars>>

\* A Listening listener (listen() on a configured port succeeded) and a
\* connector made by WSTunnelConnector::new(url) (lines 161-168).
CallInit ==
    /\ addr \in [scheme : ListenerSchemes, port : ConfiguredPorts \ {0}]
    /\ listener = [id |-> 1, port |-> addr.port]
    /\ nListen = 1
    /\ listenErr = NoErr
    /\ pc = "idle"
    /\ cur = 0
    /\ acceptRet = "-"
    /\ acceptCause = "-"
    /\ lastTry = NoErr
    /\ tunnels = <<>>
    /\ conns = <<>>
    /\ backlog = <<>>
    /\ lastConnect = NoErr
    /\ cryptoInit = FALSE
    /\ DataInit
    /\ connector \in [scheme : Schemes, host : Hosts, ip_version : {"Both"}]
    /\ call = NoCall

CallNext ==
    \/ \E resolved \in {"v4", "v6", NoAddr}, target \in {"v4", "v6"}, answer \in Answers :
          ConnectCall(resolved, target, answer)
    \/ \E v \in IpVersions : SetIpVersion(v)
    \/ \E peer \in 1..MaxConns, peerAddrOk \in BOOLEAN, flight \in Flights :
          TryAcceptCall(peer, peerAddrOk, flight)

CallSpec == CallInit /\ [][CallNext]_vars

\* ---------------------------------------------------- claims: data plane
\* The payloads of the packets a side's receive stream has yielded, and of
\* the packets a side has sent.
RecvPayloads(side) ==
    LET oks == SelectSeq(yielded[side], LAMBDA r : r.ok)
    IN  [i \in 1..Len(oks) |-> tunnel_payload_bytes(oks[i].pkt)]

SentPayloads(side) == [i \in 1..Len(sent[side]) |-> tunnel_payload_bytes(sent[side][i])]

IsPrefix(a, b) == Len(a) <= Len(b) /\ \A i \in 1..Len(a) : a[i] = b[i]

\* C4: once a side has read a close frame its receive stream yields nothing
\* more: no item for the close, none after it.
C4_CloseEndsStream ==
    \A side \in Sides : closeLen[side] # -1 => Len(yielded[side]) = closeLen[side]

\* C9: for ws and wss alike, while the transport hands a side only what the
\* peer's sink produced, the packets the side received are, byte for byte and
\* in order, the first packets the peer sent, no error is yielded, and once
\* its wire is drained it has received every packet the peer sent.
C9_PairDeliversPayloads ==
    \A side \in Sides :
        nRaw[side] = 0 =>
            /\ IsPrefix(RecvPayloads(side), SentPayloads(Peer(side)))
            /\ \A i \in DOMAIN yielded[side] : yielded[side][i].ok
            /\ wire[side] = <<>> => RecvPayloads(side) = SentPayloads(Peer(side))

\* C9 witness: the connector's packet reached the acceptor and the acceptor's
\* different reply reached the connector.
C9_Witness ==
    /\ PairUp
    /\ nRaw = [x \in Sides |-> 0]
    /\ SentPayloads("connector") = <<(<<7>>)>>
    /\ RecvPayloads("acceptor") = <<(<<7>>)>>
    /\ SentPayloads("acceptor") = <<(<<7, 9>>)>>
    /\ RecvPayloads("connector") = <<(<<7, 9>>)>>

\* C10: every packet handed to a sink encodes, without failing, to a binary
\* message with the packet's payload, and decoding that message yields a
\* packet with the same payload, the empty payload included.
C10_CodecRoundTrip ==
    \A side \in Sides : \A i \in DOMAIN sent[side] :
        LET pkt == sent[side][i]
            enc == sink_from_zc_packet(pkt)
            dec == map_from_ws_message(enc)
        IN  /\ enc.ok
            /\ enc.msg.kind = "binary"
            /\ enc.msg.payload = tunnel_payload_bytes(pkt)
            /\ dec.some /\ dec.ok
            /\ tunnel_payload_bytes(dec.pkt) = tunnel_payload_bytes(pkt)

\* C10 witness: an empty payload and a two-byte payload were sent and both
\* came out of the peer's receive stream.
C10_Witness ==
    /\ SentPayloads("connector") = <<(<<>>), (<<7, 9>>)>>
    /\ RecvPayloads("acceptor") = <<(<<>>), (<<7, 9>>)>>

\* ------------------------------------------------- claims: calls by stage
Occurs(steps, x) == Cardinality({i \in DOMAIN steps : steps[i] = x})

LastStep(steps) == steps[Len(steps)]

HandshakeErrs == {<<"TlsError">>, <<"WebSocketError">>, <<"IOError">>}

C11_State ==
    call.kind = "connect" =>
        /\ \A x \in {"is_wss", "from_url", "client_connect"} : Occurs(call.steps, x) <= 1
        /\ call.ret = "err" =>
              /\ call.info = NoInfo
              /\ call.err[1] = "InvalidProtocol" => call.steps = <<"is_wss">>
              /\ call.err = <<"ResolveError">> => LastStep(call.steps) = "from_url"
              /\ call.err \in HandshakeErrs => LastStep(call.steps) = "client_connect"
        /\ call.ret = "ok" =>
              /\ call.info # NoInfo
              /\ LastStep(call.steps) = "client_connect"

C11_Step == (call' # call /\ call'.kind = "connect") => connector' = connector

\* C11: a connect() call runs each stage at most once, a failing stage is the
\* last one it runs and leaves no tunnel, a call that returns a tunnel ended
\* with the one client handshake, and no call changes the connector's target
\* or address-family preference.
C11_ConnectSingleShot == []C11_State /\ [][C11_Step]_vars

\* C11 witness: after set_ip_version(V4), a call failed at address
\* resolution and the connector still holds its target and preference.
C11_Witness ==
    /\ call.kind = "connect"
    /\ call.ret = "err"
    /\ call.err = <<"ResolveError">>
    /\ call.steps = <<"is_wss", "from_url">>
    /\ connector.ip_version = "V4"
    /\ connector.host = "h6"


\* C12: the connection a connect() call makes goes to an address of the
\* family the preference names (IPv4 for V4, IPv6 for V6), and it is the
\* address the preference-aware resolution returned.
C12_PreferenceGovernsConnection ==
    (call.kind = "connect" /\ Occurs(call.steps, "client_connect") > 0) =>
        /\ call.pref = "V4" => call.target = "v4"
        /\ call.pref = "V6" => call.target = "v6"
        /\ call.target = call.resolved


\* ---------------------------------------- claims: construction and listen
\* C13: no listener is Listening with a scheme other than ws and wss
\* (construction with such a scheme having failed).
C13_UnknownSchemeNeverListens ==
    listener.id # 0 => addr.scheme \in {"ws", "wss"}


\* ------------------------------------------- claims: the receive sequence
\* What the claim says an inbound item maps to.
Classified(item) ==
    LET r == map_from_ws_message(item)
    IN  IF ~item.ok
        THEN r.some /\ ~r.ok /\ r.err = <<"WebSocketError", item.err>>
        ELSE IF item.msg.kind \in {"text", "ping", "pong"}
        THEN r.some /\ ~r.ok /\ r.err = <<"InvalidPacket", item.msg>>
        ELSE IF item.msg.kind = "binary"
        THEN r.some /\ r.ok /\ tunnel_payload_bytes(r.pkt) = item.msg.payload
        ELSE TRUE

\* The items put on a side's wire so far.
WiredTo(side) == Len(sent[Peer(side)]) + Count(sinkClosed[Peer(side)]) + nRaw[side]

Packets(side) == SelectSeq(yielded[side], LAMBDA r : r.ok)

\* C14: a read error maps to an error wrapping it, a text, ping or pong
\* message to InvalidPacket carrying the message, a binary message to one
\* packet with the message's payload; a receive stream has yielded at most
\* one item per message it consumed, and once it has consumed everything it
\* has yielded a packet for every binary message of the peer.
C14_InboundClassification ==
    /\ \A item \in RawItems : Classified(item)
    /\ \A side \in Sides :
          /\ \A i \in DOMAIN wire[side] : Classified(wire[side][i])
          /\ Len(yielded[side]) + Len(wire[side]) <= WiredTo(side)
          /\ wire[side] = <<>> => Len(Packets(side)) >= Len(sent[Peer(side)])

\* C14 witness: the acceptor was handed a text message and then a binary
\* one: it yielded InvalidPacket for the first and a packet for the second.
C14_Witness ==
    yielded["acceptor"] =
        <<SomeErr(<<"InvalidPacket", Msg("text", <<7>>)>>),
          SomeOk(new_from_buf(<<7>>, "DummyTunnel"))>>

\* C15: a receive stream yields no packet after it has yielded an error.
C15_NoPacketAfterError ==
    \A side \in Sides : \A i, j \in DOMAIN yielded[side] :
        (i < j /\ ~yielded[side][i].ok) => ~yielded[side][j].ok


\* C16: a call that returned a tunnel gave it a TunnelInfo whose type tag is
\* ws or wss and is the scheme of the listener or connector; for try_accept
\* the local endpoint is local_url() and the remote endpoint the peer under
\* the listener's scheme, for connect the remote endpoint is the target url.
C16_TunnelInfo ==
    call.ret = "ok" =>
        /\ call.info.tunnel_type \in {"ws", "wss"}
        /\ call.kind = "try_accept" =>
              /\ call.info.tunnel_type = addr.scheme
              /\ call.info.local_addr = local_url
              /\ call.info.remote_addr = [scheme |-> addr.scheme, peer |-> call.target]
        /\ call.kind = "connect" =>
              /\ call.info.tunnel_type = connector.scheme
              /\ call.info.remote_addr =
                    [scheme |-> connector.scheme, host |-> connector.host]

\* C16 witness: try_accept on a wss listener returned a tunnel for peer 2.
C16_Witness ==
    /\ call.kind = "try_accept"
    /\ call.ret = "ok"
    /\ addr.scheme = "wss"
    /\ call.target = 2
    /\ call.info.remote_addr = [scheme |-> "wss", peer |-> 2]

\* C17: in every call, each TLS configuration (the client's, the server's)
\* is built after init_crypto_provider has run in that call.
C17_InitBeforeTlsConfig ==
    \A i \in DOMAIN call.steps :
        call.steps[i] \in {"get_insecure_tls_client_config", "server_config"} =>
            \E j \in 1..(i - 1) : call.steps[j] = "init_crypto_provider"

StepIndex(steps, x) == CHOOSE i \in DOMAIN steps : steps[i] = x

Before(steps, x, y) ==
    (Occurs(steps, x) > 0 /\ Occurs(steps, y) > 0) => StepIndex(steps, x) < StepIndex(steps, y)

CallIsWss == IF call.kind = "connect" THEN connector.scheme = "wss" ELSE addr.scheme = "wss"

\* C18: connect runs classification, resolution, security context and client
\* handshake in that order, and a call builds a TLS configuration or
\* initialises the crypto backend only when its scheme is wss.
C18_TlsOnlyWhenSecure ==
    /\ call.kind = "connect" =>
          /\ Before(call.steps, "is_wss", "from_url")
          /\ Before(call.steps, "from_url", "get_insecure_tls_client_config")
          /\ Before(call.steps, "get_insecure_tls_client_config", "client_connect")
    /\ \A i \in DOMAIN call.steps :
          call.steps[i] \in {"get_insecure_tls_client_config", "server_config",
                             "init_crypto_provider"} => CallIsWss


\* C19: a listen() on a Listening listener is not refused for the address
\* being held by the listener's own socket; the listener's socket is the one
\* bound last, local_url() reports its port, and the connections queued are
\* connections to it.
C19_RelistenRebinds ==
    /\ listenErr # <<"AddrInUse">>
    /\ listener.id # 0 =>
          /\ local_url.port = listener.port
          /\ \A i \in DOMAIN backlog : conns[backlog[i]].st = "backlog"


\* ------------------------------------------- claims: connection ownership
\* The accepted connections not yet wrapped in a tunnel, and the tunnels a
\* connection backs.
Held == {c \in DOMAIN conns : conns[c].st = "accepted"}

TunnelsOf(c) == {i \in DOMAIN tunnels : tunnels[i].conn = c}

\* C20: the accept loop holds an unwrapped connection only while it is in
\* that connection's handshake, and then exactly that one: none is held when
\* the next TCP accept is issued or after accept() ended; a connection backs
\* one tunnel if its handshake succeeded and none otherwise.
C20_NoLeakedConnection ==
    /\ Cardinality(Held) <= 1
    /\ pc = "handshake" => Held = {cur}
    /\ pc # "handshake" => Held = {}
    /\ \A c \in DOMAIN conns :
          /\ Cardinality(TunnelsOf(c)) <= 1
          /\ conns[c].st = "tunnel" <=> Cardinality(TunnelsOf(c)) = 1
    /\ \A i \in DOMAIN tunnels : tunnels[i].conn \in DOMAIN conns

\* C20 witness: the first connection was dropped for its failed handshake
\* and the loop now holds the second one, and only it.
C20_Witness ==
    /\ Len(conns) = 2
    /\ conns[1].st = "closed"
    /\ lastTry \in {<<"TlsError">>, <<"WebSocketError">>}
    /\ pc = "handshake"
    /\ cur = 2
    /\ Held = {2}

====
